---- MODULE Spec2Model ----
(***************************************************************************)
(* DeviceHub tools of the Litmus Edge MCP server                           *)
(* (src/src/tools/devicehub_tools.py): nine tool handlers that resolve     *)
(* devices and tags against a remote catalog, mutate it, and wrap every    *)
(* outcome in a success envelope, an error envelope or an McpError.        *)
(*                                                                         *)
(* Python values are modelled as strings ("True", "False", "[]" stand for  *)
(* the booleans and the empty list), objects and dicts as functions whose  *)
(* DOMAIN is the set of attributes / keys that are present, and an         *)
(* optional object as a sequence of length 0 or 1.                         *)
(***************************************************************************)
EXTENDS Integers, Sequences, FiniteSets, TLC

\* Longest tag_ids list a deleteTag request carries.
MaxIds == 3
\* Largest number of devices in the catalog the hub starts with.
MaxDevices == 2

None == "<None>"

\* Python truthiness of the values that occur (None, "", False, [] are falsy).
Truthy(v) == v \notin {None, "", "False", "[]"}

\* getattr(obj, attr, default)
GetAttr(obj, attr, default) == IF attr \in DOMAIN obj THEN obj[attr] ELSE default

\* arguments.get(key, default)
ArgGet(arguments, key, default) ==
    IF key \in DOMAIN arguments THEN arguments[key] ELSE default

\* {k: v for k, v in info.items() if v is not None}
DropNone(info) == [k \in {a \in DOMAIN info : info[a] # None} |-> info[k]]

Range(s) == {s[i] : i \in 1..Len(s)}

RECURSIVE SelectSeqBy(_, _)
\* A list comprehension / filtering loop: the elements of s at the indices
\* in keep, in order.
SelectSeqBy(s, keep) ==
    IF s = <<>> THEN <<>>
    ELSE LET rest == SelectSeqBy(Tail(s), {i - 1 : i \in keep \ {1}})
         IN  IF 1 \in keep THEN <<Head(s)>> \o rest ELSE rest

\* next((x for x in s if ...), None) as an optional, <<x>> or <<>>: the element
\* of s at the least of the indices in hits.
FirstWhere(s, hits) ==
    IF hits = {} THEN <<>> ELSE <<s[CHOOSE i \in hits : \A j \in hits : i <= j]>>

\* Python's order on the strings that are sorted (code-point order).
StrOrder == << "", "BACnet", "Boiler", "Flow", "ModbusTCP", "OPCUA", "PLC1",
               "Pres", "Temp", "Valve", "d1", "d2", "d3", "d9" >>
StrRank(s) == CHOOSE i \in 1..Len(StrOrder) : StrOrder[i] = s
StrLeq(a, b) == StrRank(a) <= StrRank(b)

\* Lexicographic order on pairs of strings (tuple comparison).
PairLeq(a, b) == IF a[1] = b[1] THEN StrLeq(a[2], b[2]) ELSE StrLeq(a[1], b[1])

\* list.sort(key=...): s sorted ascending by the parallel list of keys (pairs
\* of strings); elements with equal keys keep their order (a stable sort).
SortBy(s, keys) ==
    LET before(j, i) == \/ (keys[j] # keys[i] /\ PairLeq(keys[j], keys[i]))
                        \/ (keys[j] = keys[i] /\ j < i)
        pos(i) == 1 + Cardinality({j \in 1..Len(s) : before(j, i)})
    IN  [p \in 1..Len(s) |-> s[CHOOSE i \in 1..Len(s) : pos(i) = p]]

\* counts[key] = counts.get(key, 0) + 1 over a list of keys.
CountBy(keys) ==
    [k \in Range(keys) |-> Cardinality({i \in 1..Len(keys) : keys[i] = k})]

(***************************************************************************)
(* The remote catalog: what the hub holds.                                 *)
(***************************************************************************)

DrvModbus == [name |-> "ModbusTCP", id |-> "drvA", protocol |-> "modbus",
              version |-> None, default_properties |-> "[ip,port]"]
DrvOpc    == [name |-> "OPCUA", id |-> "drvB", category |-> "opc",
              default_properties |-> "[url]"]
DrvBacnet == [name |-> "BACnet", id |-> "drvC", default_properties |-> "[]"]

\* Driver catalogs the hub may hold (unsorted, and one without OPCUA).
DriverCatalogs == { <<DrvOpc, DrvModbus, DrvBacnet>>, <<DrvModbus>> }

DevPLC1   == [name |-> "PLC1", id |-> "d1", driver |-> "drvA", metadata |-> "m1",
              description |-> "line 1", properties |-> "[ip]"]
DevBoiler == [name |-> "Boiler", id |-> "d2", driver |-> "drvB", metadata |-> None,
              properties |-> "[url]"]
\* A second device named PLC1 (names are not unique in the remote store),
\* with no driver and no metadata attribute.
DevPLC1b  == [name |-> "PLC1", id |-> "d3"]
DeviceRecords == {DevPLC1, DevBoiler, DevPLC1b}

RECURSIVE DistinctSeqs(_, _)
\* The sequences of at most n distinct elements of S.
DistinctSeqs(S, n) ==
    IF n = 0 THEN {<<>>}
    ELSE LET shorter == DistinctSeqs(S, n - 1)
             longer  == {Append(q, x) : q \in shorter, x \in S}
         IN  shorter \cup
             {q \in longer : \A i, j \in 1..Len(q) : q[i] = q[j] => i = j}

DeviceCatalogs == DistinctSeqs(DeviceRecords, MaxDevices)

TagTemp  == [tag_name |-> "Temp", id |-> "t1", device |-> "d1", device_name |-> "PLC1",
             value_type |-> "float", description |-> "old", properties |-> "[p]",
             publish_cov |-> "True",
             topics |-> << [topic |-> "in/t1", direction |-> "Input"],
                           [topic |-> "out/t1", direction |-> "Output"] >>]
\* A tag record with no device_name attribute and an Input topic only.
TagPres  == [tag_name |-> "Pres", id |-> "t2", device |-> "d1",
             value_type |-> "int", description |-> None, properties |-> "[]",
             publish_cov |-> "False",
             topics |-> << [topic |-> "in/t2", direction |-> "Input"] >>]
\* A tag of the other device carrying the same tag_name as t1.
TagTempB == [tag_name |-> "Temp", id |-> "t3", device |-> "d2", device_name |-> "Boiler",
             value_type |-> "float", description |-> "b", properties |-> "[]",
             publish_cov |-> "False",
             topics |-> << [topic |-> "out/t3", direction |-> "Output"] >>]

TagCatalogs == { <<TagPres, TagTempB, TagTemp>>, <<TagTemp, TagPres>>, <<TagTempB>> }

(***************************************************************************)
(* Envelopes and errors.                                                   *)
(***************************************************************************)

INVALID_PARAMS == "INVALID_PARAMS"
INTERNAL_ERROR == "INTERNAL_ERROR"

\* raise McpError(ErrorData(code=..., message=...)); the message is kept as
\* its fixed text, the name it quotes and the list it prints.
McpError(code, text, subject, listed) ==
    [kind |-> "mcp_error", code |-> code,
     message |-> [text |-> text, subject |-> subject, listed |-> listed]]

\* format_success_response(result)
FormatSuccessResponse(result) == [kind |-> "success", result |-> result]

\* format_error_response(code, str(e), **fields)
FormatErrorResponse(code, fields) == [kind |-> "error", code |-> code, fields |-> fields]

NoFields == [k \in {} |-> None]

(***************************************************************************)
(* The handlers' local computations.                                       *)
(***************************************************************************)

\* get_litmusedge_driver_list: one driver's normalized record.
DriverInfo(driver) ==
    DropNone([name        |-> driver.name,
              id          |-> GetAttr(driver, "id", None),
              protocol    |-> GetAttr(driver, "protocol", None),
              version     |-> GetAttr(driver, "version", None),
              description |-> GetAttr(driver, "description", None),
              category    |-> GetAttr(driver, "category", None)])

\* get_litmusedge_driver_list: the success payload.
DriverListResult(driver_list) ==
    LET infos   == [i \in 1..Len(driver_list) |-> DriverInfo(driver_list[i])]
        drivers == SortBy(infos, [i \in 1..Len(infos) |-> <<infos[i].name, "">>])
    IN  [count        |-> Len(drivers),
         drivers      |-> drivers,
         driver_names |-> [i \in 1..Len(drivers) |-> drivers[i].name]]

\* _build_device_info
BuildDeviceInfo(device) ==
    DropNone([name        |-> device.name,
              id          |-> GetAttr(device, "id", None),
              driver      |-> GetAttr(device, "driver", None),
              metadata    |-> GetAttr(device, "metadata", "unknown"),
              description |-> GetAttr(device, "description", None),
              properties  |-> GetAttr(device, "properties", None)])

\* _create_device_summary
CreateDeviceSummary(device_data) ==
    [by_driver |-> CountBy([i \in 1..Len(device_data) |->
                               GetAttr(device_data[i], "driver", "unknown")])]

\* The filtering loop letting through the devices that have no driver.
DeviceFilterKeepsDriverless(infos, filter_by_driver) ==
    {i \in 1..Len(infos) :
        ~(/\ Truthy(filter_by_driver)
          /\ "driver" \in DOMAIN infos[i]
          /\ infos[i].driver # filter_by_driver)}

\* get_devicehub_devices: the filtering loop; the indices of the devices kept.
DeviceFilterKeeps(infos, filter_by_driver) ==
    {i \in 1..Len(infos) :
        ~(Truthy(filter_by_driver) /\ GetAttr(infos[i], "driver", None) # filter_by_driver)}

\* get_devicehub_devices: the success payload.
DevicesResult(device_list, filter_by_driver) ==
    LET infos  == [i \in 1..Len(device_list) |-> BuildDeviceInfo(device_list[i])]
        kept   == SelectSeqBy(infos, DeviceFilterKeeps(infos, filter_by_driver))
        device_data == SortBy(kept, [i \in 1..Len(kept) |-> <<kept[i].name, "">>])
        result == [count   |-> Len(device_data),
                   devices |-> device_data,
                   summary |-> CreateDeviceSummary(device_data)]
    IN  IF Truthy(filter_by_driver)
        THEN result @@ [filters_applied |-> [driver |-> filter_by_driver]]
        ELSE result

\* _find_device_by_name, on the fetched list: the first device of that name.
FindDeviceByName(device_list, device_name) ==
    FirstWhere(device_list, {i \in 1..Len(device_list) : device_list[i].name = device_name})

\* driver_names cut short by one.
DriverNamesButLast(driver_list) ==
    [i \in 1..(Len(driver_list) - 1) |-> driver_list[i].name]

\* create_devicehub_device: driver_names
DriverNames(driver_list) == [i \in 1..Len(driver_list) |-> driver_list[i].name]

\* create_devicehub_device: driver_map[selected_driver] (a later driver of the
\* same name overwrites an earlier one).
DriverMapEntry(driver_list, selected_driver) ==
    LET hits == {i \in 1..Len(driver_list) : driver_list[i].name = selected_driver}
        last == CHOOSE i \in hits : \A j \in hits : j <= i
    IN  [id |-> driver_list[last].id, properties |-> driver_list[last].default_properties]

\* create_devicehub_device: devices.Device(name=, properties=, driver=)
NewDevice(name, entry) ==
    [name |-> name, properties |-> entry.properties, driver |-> entry.id]

NextSteps == << "Update connection properties (IP address, port, etc.)",
                "Configure tags/registers for data collection",
                "Enable the device to start communication" >>

\* create_devicehub_device: the success payload.
CreateDeviceResult(created_device) ==
    [device |-> created_device, next_steps |-> NextSteps]

\* get_devicehub_device_tags: one tag's normalized record.
DeviceTagInfo(tag) ==
    DropNone([tag_name    |-> tag.tag_name,
              id          |-> GetAttr(tag, "id", None),
              address     |-> GetAttr(tag, "address", None),
              data_type   |-> GetAttr(tag, "data_type", None),
              scaling     |-> GetAttr(tag, "scaling", None),
              read_write  |-> GetAttr(tag, "read_write", None),
              unit        |-> GetAttr(tag, "unit", None),
              description |-> GetAttr(tag, "description", None)])

\* get_devicehub_device_tags: the success payload.
DeviceTagsResult(device_name, tag_list) ==
    LET infos    == [i \in 1..Len(tag_list) |-> DeviceTagInfo(tag_list[i])]
        tag_data == SortBy(infos, [i \in 1..Len(infos) |-> <<infos[i].tag_name, "">>])
    IN  [device_name |-> device_name,
         count       |-> Len(tag_data),
         tags        |-> tag_data,
         tag_names   |-> [i \in 1..Len(tag_data) |-> tag_data[i].tag_name]]

\* list_all_devicehub_tags / create_devicehub_tag / update_devicehub_tag: one
\* tag's normalized record.
TagInfo(tag) ==
    DropNone([tag_name    |-> tag.tag_name,
              id          |-> GetAttr(tag, "id", None),
              device      |-> GetAttr(tag, "device", None),
              value_type  |-> GetAttr(tag, "value_type", None),
              description |-> GetAttr(tag, "description", None),
              publish_cov |-> GetAttr(tag, "publish_cov", None)])

\* get_current_value_of_devicehub_tag: the tag lookup, by tag_name when one is
\* given and by tag_id otherwise.
ResolveTag(tag_list, tag_name, tag_id) ==
    IF Truthy(tag_name)
    THEN FirstWhere(tag_list, {i \in 1..Len(tag_list) : tag_list[i].tag_name = tag_name})
    ELSE FirstWhere(tag_list, {i \in 1..Len(tag_list) : tag_list[i].id = tag_id})

\* The topic of the tag's first topic, whatever its direction.
FirstTopicOfAnyDirection(tag) ==
    IF tag.topics = <<>> THEN None ELSE tag.topics[1].topic

\* get_current_value_of_devicehub_tag: the topic of the first Output topic, or None.
OutputTopic(tag) ==
    LET outs == FirstWhere(tag.topics,
                           {i \in 1..Len(tag.topics) : tag.topics[i].direction = "Output"})
    IN  IF outs = <<>> THEN None ELSE outs[1].topic

\* get_current_value_of_devicehub_tag: the success payload.
ReadResult(device_name, tag_name, tag_id, requested_tag, value_data) ==
    [device_name |-> device_name,
     tag_name    |-> IF Truthy(tag_name) THEN tag_name ELSE requested_tag.tag_name,
     tag_id      |-> IF Truthy(tag_id) THEN tag_id ELSE requested_tag.id,
     data        |-> value_data]

\* list_all_devicehub_tags: the filtering loop; the indices of the tags kept.
AllTagsKeeps(all_tags, device_name_filter) ==
    {i \in 1..Len(all_tags) :
        LET tag_device_name == GetAttr(all_tags[i], "device_name", None)
        IN  ~(/\ Truthy(device_name_filter)
              /\ Truthy(tag_device_name)
              /\ tag_device_name # device_name_filter)}

\* list_all_devicehub_tags: the success payload.
AllTagsResult(all_tags, device_name_filter) ==
    LET kept     == SelectSeqBy(all_tags, AllTagsKeeps(all_tags, device_name_filter))
        infos    == [i \in 1..Len(kept) |-> TagInfo(kept[i])]
        tag_data == SortBy(infos, [i \in 1..Len(infos) |->
                              <<GetAttr(infos[i], "device", ""),
                                GetAttr(infos[i], "tag_name", "")>>])
        device_counts == CountBy([i \in 1..Len(kept) |->
                              LET device_id == GetAttr(kept[i], "device", None)
                              IN  IF Truthy(device_id) THEN device_id ELSE "unknown"])
        result == [count   |-> Len(tag_data),
                   tags    |-> tag_data,
                   summary |-> [by_device |-> device_counts]]
    IN  IF Truthy(device_name_filter)
        THEN result @@ [filters_applied |-> [device_name |-> device_name_filter]]
        ELSE result

\* create_devicehub_tag: Tag(device=, tag_name=, value_type=, description=,
\* properties=, publish_cov=)
NewTag(device, arguments) ==
    [device      |-> device.id,
     tag_name    |-> ArgGet(arguments, "tag_name", None),
     value_type  |-> ArgGet(arguments, "value_type", None),
     description |-> ArgGet(arguments, "description", ""),
     properties  |-> ArgGet(arguments, "properties", "[]"),
     publish_cov |-> ArgGet(arguments, "publish_cov", "False")]

\* create_devicehub_tag / update_devicehub_tag: the success payload.
TagResult(device_name, tag) == [device_name |-> device_name, tag |-> TagInfo(tag)]

\* update_devicehub_tag: "if new_x is not None"
ProvidedTruthy(new_value) == Truthy(new_value)
Provided(new_value) == new_value # None

\* update_devicehub_tag: "if new_x is not None: existing_tag.x = new_x"
MergeField(tag, field, new_value) ==
    IF Provided(new_value)
    THEN [a \in DOMAIN tag \cup {field} |-> IF a = field THEN new_value ELSE tag[a]]
    ELSE tag

UpdatableFields == <<"tag_name", "value_type", "description", "properties", "publish_cov">>

RECURSIVE MergeFields(_, _, _)
\* update_devicehub_tag: the five conditional assignments, in order.
MergeFields(tag, fields, arguments) ==
    IF fields = <<>> THEN tag
    ELSE MergeFields(MergeField(tag, Head(fields), ArgGet(arguments, Head(fields), None)),
                     Tail(fields), arguments)

\* update_devicehub_tag: the tag with id tag_id in the fetched list.
FindTagById(tag_list, tag_id) ==
    FirstWhere(tag_list, {i \in 1..Len(tag_list) : tag_list[i].id = tag_id})

\* delete_devicehub_tag with a resolution that gives up on an unknown id.
ResolveByIdsAllOrNothing(tag_list, tag_ids) ==
    IF \A i \in 1..Len(tag_ids) : FindTagById(tag_list, tag_ids[i]) # <<>>
    THEN [i \in 1..Len(tag_ids) |-> FindTagById(tag_list, tag_ids[i])[1]]
    ELSE <<>>

RECURSIVE ResolveByIds(_, _)
\* delete_devicehub_tag: "for tid in tag_ids", appending each id's first match.
ResolveByIds(tag_list, tag_ids) ==
    IF tag_ids = <<>> THEN <<>>
    ELSE FindTagById(tag_list, Head(tag_ids)) \o ResolveByIds(tag_list, Tail(tag_ids))

\* delete_devicehub_tag with the lookup by tag_name tried before the one by tag_id.
TagsToDeleteNameFirst(tag_list, tag_name, tag_id, tag_ids) ==
    IF tag_ids # <<>> THEN ResolveByIds(tag_list, tag_ids)
    ELSE IF Truthy(tag_name)
         THEN FirstWhere(tag_list, {i \in 1..Len(tag_list) : tag_list[i].tag_name = tag_name})
    ELSE IF Truthy(tag_id) THEN FindTagById(tag_list, tag_id)
    ELSE <<>>

\* delete_devicehub_tag: tags_to_delete, from tag_ids, else tag_id, else tag_name.
TagsToDelete(tag_list, tag_name, tag_id, tag_ids) ==
    IF tag_ids # <<>> THEN ResolveByIds(tag_list, tag_ids)
    ELSE IF Truthy(tag_id) THEN FindTagById(tag_list, tag_id)
    ELSE IF Truthy(tag_name)
         THEN FirstWhere(tag_list, {i \in 1..Len(tag_list) : tag_list[i].tag_name = tag_name})
    ELSE <<>>

\* delete_devicehub_tag: the success payload.
DeleteResult(device_name, tags_to_delete) ==
    [device_name   |-> device_name,
     deleted_count |-> Len(tags_to_delete),
     deleted_tags  |-> [i \in 1..Len(tags_to_delete) |-> tags_to_delete[i].tag_name]]

(***************************************************************************)
(* The remote calls' effect on the catalog.                                *)
(***************************************************************************)

\* tags.list_registers_from_single_device(device): the device's tags.
ListRegistersFromSingleDevice(all_tags, device) ==
    SelectSeqBy(all_tags, {i \in 1..Len(all_tags) : all_tags[i].device = device.id})

\* devices.create_device(device): the hub stores the device under a new id.
CreatedDevice(device) == device @@ [id |-> "d9"]

\* tags.create_tags([tag]): the hub stores the tag under a new id.
CreatedTag(tag) == tag @@ [id |-> "t9", topics |-> <<>>]

\* A hub that acknowledges update_tags and stores nothing.
StoreUnchanged(all_tags, sent) == all_tags

\* tags.update_tags(sent): each stored tag with a sent tag's id is replaced by it.
StoreUpdated(all_tags, sent) ==
    [i \in 1..Len(all_tags) |->
        LET hit == FindTagById(sent, all_tags[i].id)
        IN  IF hit = <<>> THEN all_tags[i] ELSE hit[1]]

\* tags.delete_tag(tag) / tags.delete_tags(sent): the sent tags are removed.
StoreDeleted(all_tags, sent) ==
    SelectSeqBy(all_tags, {i \in 1..Len(all_tags) : FindTagById(sent, all_tags[i].id) = <<>>})

\* get_current_value_on_topic(topic): the live-value subsystem's payload.
CurrentValueOnTopic(topic) == [topic |-> topic, value |-> "42"]

(***************************************************************************)
(* State: the hub's catalog and, per inbound call, the handler's position  *)
(* and locals.                                                             *)
(***************************************************************************)

VARIABLES
    drivers,    \* the hub's driver catalog
    devices,    \* the hub's device collection
    tags,       \* the hub's tag collection (all devices)
    calls       \* per call: op, pc, args, locals, remote-call log, outcome

vars == <<drivers, devices, tags, calls>>
catalog == <<drivers, devices, tags>>

Procs == {1, 2}
\* The calls that run under Spec: one handler at a time.
SeqProcs == {1}

IdleCall ==
    [op |-> "idle", pc |-> "idle", args |-> NoFields,
     device   |-> <<>>,     \* requested_device, once found
     tag_list |-> <<>>,     \* the fetched tag list
     targets  |-> <<>>,     \* the records the mutation sends / the resolved tag
     topic    |-> None,     \* requested_value_from_topic
     log      |-> <<>>,     \* the remote calls made, in order
     outcome  |-> <<>>]     \* what the handler returned or raised

Init ==
    /\ drivers \in DriverCatalogs
    /\ devices \in DeviceCatalogs
    /\ tags \in TagCatalogs
    /\ calls = [p \in Procs |-> IdleCall]

\* The argument an absent key stands for in the sets the requests are drawn from.
Absent == "<absent>"

\* The arguments dict holding the keys that were given a value.
MakeArgs(choice) == [k \in {a \in DOMAIN choice : choice[a] # Absent} |-> choice[k]]

RECURSIVE SeqsUpTo(_, _)
\* The sequences of at most n elements of S.
SeqsUpTo(S, n) ==
    IF n = 0 THEN {<<>>}
    ELSE LET shorter == SeqsUpTo(S, n - 1)
         IN  shorter \cup {Append(q, x) : q \in shorter, x \in S}

\* The handler's "except Exception" reason code.
ReasonCode(op) ==
    CASE op \in {"get_litmusedge_driver_list", "get_devicehub_devices",
                 "get_devicehub_device_tags", "list_all_devicehub_tags"} -> "retrieval_failed"
      [] op \in {"create_devicehub_device", "create_devicehub_tag"} -> "creation_failed"
      [] op = "get_current_value_of_devicehub_tag" -> "read_failed"
      [] op = "update_devicehub_tag" -> "update_failed"
      [] op = "delete_devicehub_tag" -> "deletion_failed"

\* An except clause that passes no default fields on.
ErrorFieldsNone(op) == [k \in {} |-> None]

\* The default fields the handler's "except Exception" passes on.
ErrorFields(op) ==
    CASE op = "get_litmusedge_driver_list" -> [count |-> 0, drivers |-> <<>>]
      [] op = "get_devicehub_devices" -> [count |-> 0, devices |-> <<>>]
      [] op \in {"get_devicehub_device_tags", "list_all_devicehub_tags"} ->
             [count |-> 0, tags |-> <<>>]
      [] OTHER -> NoFields

\* except Exception: return format_error_response(...)
OnException(op) == FormatErrorResponse(ReasonCode(op), ErrorFields(op))

DeviceNotFound(device_name) ==
    McpError(INVALID_PARAMS,
             "Device not found. Use get_devicehub_devices to see available devices.",
             device_name, <<>>)

Required(parameter) ==
    McpError(INVALID_PARAMS, "parameter is required", parameter, <<>>)

\* A call record after one more remote call.
Logged(c, call, ok, sent) ==
    [c EXCEPT !.log = Append(@, [call |-> call, ok |-> ok, sent |-> sent])]

\* The handler ends: it returns an envelope or raises an McpError.
Finish(c, outcome) == [c EXCEPT !.pc = "done", !.outcome = <<outcome>>]

\* A handler that tries again after a remote call raised.
RaisedAndRetried(c, call, sent) ==
    [c EXCEPT !.log = Append(@, [call |-> call, ok |-> FALSE, sent |-> sent])]

\* A remote call raised: the handler's except clause ends the call.
Raised(c, call, sent) == Finish(Logged(c, call, FALSE, sent), OnException(c.op))

\* The call record once the handler is entered with the arguments; invalid is
\* <<>> or the McpError its parameter checks raise before any remote call.
Entered(c, op, arguments, invalid) ==
    IF invalid # <<>>
    THEN [c EXCEPT !.op = op, !.args = arguments, !.pc = "done", !.outcome = invalid]
    ELSE [c EXCEPT !.op = op, !.args = arguments, !.pc = "connect"]

(***************************************************************************)
(* The handlers' entry: arguments are read and required parameters checked.*)
(***************************************************************************)

GetLitmusedgeDriverList(p) ==
    /\ calls[p].pc = "idle"
    /\ calls' = [calls EXCEPT ![p] =
           Entered(calls[p], "get_litmusedge_driver_list", NoFields, <<>>)]
    /\ UNCHANGED catalog

GetDevicehubDevices(p) ==
    /\ calls[p].pc = "idle"
    /\ \E choice \in [filter_by_driver : {Absent, "", "drvA", "drvB", "drvZ"}] :
           calls' = [calls EXCEPT ![p] =
               Entered(calls[p], "get_devicehub_devices", MakeArgs(choice), <<>>)]
    /\ UNCHANGED catalog

ValidateCreateDevice(arguments) ==
    IF ~Truthy(ArgGet(arguments, "name", None)) THEN <<Required("name")>>
    ELSE IF ~Truthy(ArgGet(arguments, "selected_driver", None))
         THEN <<Required("selected_driver")>>
    ELSE <<>>

CreateDevicehubDevice(p) ==
    /\ calls[p].pc = "idle"
    /\ \E choice \in [name : {Absent, "Valve"},
                      selected_driver : {Absent, "", "OPCUA", "ModbusTCP", "Bogus"}] :
           calls' = [calls EXCEPT ![p] =
               Entered(calls[p], "create_devicehub_device", MakeArgs(choice), ValidateCreateDevice(MakeArgs(choice)))]
    /\ UNCHANGED catalog

ValidateDeviceName(arguments) ==
    IF ~Truthy(ArgGet(arguments, "device_name", None)) THEN <<Required("device_name")>>
    ELSE <<>>

GetDevicehubDeviceTags(p) ==
    /\ calls[p].pc = "idle"
    /\ \E choice \in [device_name : {Absent, "", "PLC1", "Boiler"}] :
           calls' = [calls EXCEPT ![p] =
               Entered(calls[p], "get_devicehub_device_tags", MakeArgs(choice), ValidateDeviceName(MakeArgs(choice)))]
    /\ UNCHANGED catalog

ValidateReadValue(arguments) ==
    IF ~Truthy(ArgGet(arguments, "device_name", None)) THEN <<Required("device_name")>>
    ELSE IF /\ ~Truthy(ArgGet(arguments, "tag_name", None))
            /\ ~Truthy(ArgGet(arguments, "tag_id", None))
         THEN <<McpError(INVALID_PARAMS, "Either 'tag_name' or 'tag_id' is required",
                         "", <<>>)>>
    ELSE <<>>

GetCurrentValueOfDevicehubTag(p) ==
    /\ calls[p].pc = "idle"
    /\ \E choice \in [device_name : {Absent, "PLC1", "Boiler"},
                      tag_name : {Absent, "Temp", "Pres"},
                      tag_id : {Absent, "t1", "t2"}] :
           calls' = [calls EXCEPT ![p] =
               Entered(calls[p], "get_current_value_of_devicehub_tag", MakeArgs(choice), ValidateReadValue(MakeArgs(choice)))]
    /\ UNCHANGED catalog

ListAllDevicehubTags(p) ==
    /\ calls[p].pc = "idle"
    /\ \E choice \in [device_name : {Absent, "PLC1", "Boiler"}] :
           calls' = [calls EXCEPT ![p] =
               Entered(calls[p], "list_all_devicehub_tags", MakeArgs(choice), <<>>)]
    /\ UNCHANGED catalog

ValidateCreateTag(arguments) ==
    IF ~Truthy(ArgGet(arguments, "device_name", None)) THEN <<Required("device_name")>>
    ELSE IF ~Truthy(ArgGet(arguments, "tag_name", None)) THEN <<Required("tag_name")>>
    ELSE IF ~Truthy(ArgGet(arguments, "value_type", None)) THEN <<Required("value_type")>>
    ELSE <<>>

CreateDevicehubTag(p) ==
    /\ calls[p].pc = "idle"
    /\ \E choice \in [device_name : {Absent, "PLC1"},
                      tag_name : {Absent, "Flow"},
                      value_type : {Absent, "int"},
                      description : {Absent, "new"},
                      publish_cov : {Absent, "True"}] :
           calls' = [calls EXCEPT ![p] =
               Entered(calls[p], "create_devicehub_tag", MakeArgs(choice), ValidateCreateTag(MakeArgs(choice)))]
    /\ UNCHANGED catalog

ValidateUpdateTag(arguments) ==
    IF ~Truthy(ArgGet(arguments, "device_name", None)) THEN <<Required("device_name")>>
    ELSE IF ~Truthy(ArgGet(arguments, "tag_id", None)) THEN <<Required("tag_id")>>
    ELSE <<>>

\* The requests updateTag is given: each updatable field is omitted or carries
\* a value, among them the falsy "", "[]" and "False".
UpdateChoices ==
    [device_name : {Absent, "PLC1"},
     tag_id      : {Absent, "t1", "t2"},
     tag_name    : {Absent, "Flow"},
     value_type  : {Absent, "int"},
     description : {Absent, "", "new"},
     properties  : {Absent, "[]"},
     publish_cov : {Absent, "False"}]

UpdateDevicehubTag(p) ==
    /\ calls[p].pc = "idle"
    /\ \E choice \in UpdateChoices :
           calls' = [calls EXCEPT ![p] =
               Entered(calls[p], "update_devicehub_tag", MakeArgs(choice), ValidateUpdateTag(MakeArgs(choice)))]
    /\ UNCHANGED catalog

ValidateDeleteTag(arguments) ==
    IF ~Truthy(ArgGet(arguments, "device_name", None)) THEN <<Required("device_name")>>
    ELSE IF /\ ~Truthy(ArgGet(arguments, "tag_name", None))
            /\ ~Truthy(ArgGet(arguments, "tag_id", None))
            /\ ArgGet(arguments, "tag_ids", <<>>) = <<>>
         THEN <<McpError(INVALID_PARAMS,
                         "Either 'tag_name', 'tag_id', or 'tag_ids' is required", "", <<>>)>>
    ELSE <<>>

TagIdValues == {"t1", "t2", "t3"}

\* The arguments of a deleteTag request; an empty tag_ids list is as good as none.
DeleteArgs(choice, tag_ids) ==
    IF tag_ids = <<>> THEN MakeArgs(choice) ELSE MakeArgs(choice) @@ [tag_ids |-> tag_ids]

DeleteDevicehubTag(p) ==
    /\ calls[p].pc = "idle"
    /\ \E choice \in [device_name : {Absent, "PLC1"},
                      tag_name : {Absent, "Temp"},
                      tag_id : {Absent, "t2", "t3"}],
                      tag_ids \in SeqsUpTo(TagIdValues, MaxIds) :
           calls' = [calls EXCEPT ![p] =
               Entered(calls[p], "delete_devicehub_tag", DeleteArgs(choice, tag_ids), ValidateDeleteTag(DeleteArgs(choice, tag_ids)))]
    /\ UNCHANGED catalog

(***************************************************************************)
(* The handlers' steps: one action per remote call, followed by the        *)
(* handler's code up to its next remote call or its end.  Every remote     *)
(* call may raise.                                                         *)
(***************************************************************************)

\* The first catalog call of each handler.
FirstCall(op) ==
    CASE op \in {"get_litmusedge_driver_list", "create_devicehub_device"} -> "list_all_drivers"
      [] op = "list_all_devicehub_tags" -> "list_all_tags"
      [] OTHER -> "list_devices"

\* connection = get_litmus_connection(request)
GetLitmusConnection(p) ==
    /\ calls[p].pc = "connect"
    /\ \E ok \in BOOLEAN :
        calls' = [calls EXCEPT ![p] =
            IF ok THEN [Logged(calls[p], "get_litmus_connection", TRUE, <<>>)
                            EXCEPT !.pc = FirstCall(calls[p].op)]
            ELSE Raised(calls[p], "get_litmus_connection", <<>>)]
    /\ UNCHANGED catalog

\* The handlers' code after list_all_drivers returned driver_list.
AfterListAllDrivers(c, driver_list) ==
    IF c.op = "get_litmusedge_driver_list"
    THEN Finish(c, FormatSuccessResponse(DriverListResult(driver_list)))
    ELSE LET selected_driver == ArgGet(c.args, "selected_driver", None)
             driver_names    == DriverNames(driver_list)
         IN  IF selected_driver \notin Range(driver_names)
             THEN Finish(c, McpError(INVALID_PARAMS, "Driver not found. Available drivers:",
                                     selected_driver, driver_names))
             ELSE [c EXCEPT !.pc = "create_device",
                            !.targets = <<NewDevice(ArgGet(c.args, "name", None),
                                            DriverMapEntry(driver_list, selected_driver))>>]

\* list_all_drivers(le_connection=connection)
ListAllDrivers(p) ==
    /\ calls[p].pc = "list_all_drivers"
    /\ \E ok \in BOOLEAN :
        calls' = [calls EXCEPT ![p] =
            IF ok THEN AfterListAllDrivers(Logged(calls[p], "list_all_drivers", TRUE, <<>>), drivers)
            ELSE Raised(calls[p], "list_all_drivers", <<>>)]
    /\ UNCHANGED catalog

\* The handlers' code after devices.list_devices returned device_list.
AfterListDevices(c, device_list) ==
    IF c.op = "get_devicehub_devices"
    THEN Finish(c, FormatSuccessResponse(
                       DevicesResult(device_list, ArgGet(c.args, "filter_by_driver", None))))
    ELSE LET device_name      == ArgGet(c.args, "device_name", None)
             requested_device == FindDeviceByName(device_list, device_name)
         IN  IF requested_device = <<>> THEN Finish(c, DeviceNotFound(device_name))
             ELSE IF c.op = "create_devicehub_tag"
                  THEN [c EXCEPT !.device = requested_device, !.pc = "create_tags",
                                 !.targets = <<NewTag(requested_device[1], c.args)>>]
             ELSE [c EXCEPT !.device = requested_device, !.pc = "list_registers"]

\* devices.list_devices(le_connection=connection)
ListDevices(p) ==
    /\ calls[p].pc = "list_devices"
    /\ \E ok \in BOOLEAN :
        calls' = [calls EXCEPT ![p] =
            IF ok THEN AfterListDevices(Logged(calls[p], "list_devices", TRUE, <<>>), devices)
            ELSE Raised(calls[p], "list_devices", <<>>)]
    /\ UNCHANGED catalog

\* get_current_value_of_devicehub_tag, from the tag lookup to the topic.
AfterListRegistersRead(c, tag_list) ==
    LET tag_name      == ArgGet(c.args, "tag_name", None)
        tag_id        == ArgGet(c.args, "tag_id", None)
        requested_tag == ResolveTag(tag_list, tag_name, tag_id)
        by            == IF Truthy(tag_name) THEN "name" ELSE "ID"
        identifier    == IF Truthy(tag_name) THEN tag_name ELSE tag_id
    IN  IF requested_tag = <<>>
        THEN Finish(c, McpError(INVALID_PARAMS, "Tag not found on device",
                                identifier, <<by>>))
        ELSE IF ~Truthy(OutputTopic(requested_tag[1]))
             THEN Finish(c, McpError(INTERNAL_ERROR, "No output topic found for tag",
                                     identifier, <<by>>))
        ELSE [c EXCEPT !.targets = requested_tag, !.topic = OutputTopic(requested_tag[1]),
                       !.pc = "get_current_value"]

\* update_devicehub_tag, from the tag lookup to the merged record.
AfterListRegistersUpdate(c, tag_list) ==
    LET tag_id       == ArgGet(c.args, "tag_id", None)
        existing_tag == FindTagById(tag_list, tag_id)
    IN  IF existing_tag = <<>>
        THEN Finish(c, McpError(INVALID_PARAMS, "Tag with ID not found on device",
                                tag_id, <<>>))
        ELSE [c EXCEPT !.targets = <<MergeFields(existing_tag[1], UpdatableFields, c.args)>>,
                       !.pc = "update_tags"]

\* delete_devicehub_tag without its "if not tags_to_delete" check.
AfterListRegistersDeleteUnchecked(c, tag_list) ==
    LET tags_to_delete == TagsToDelete(tag_list, ArgGet(c.args, "tag_name", None),
                                       ArgGet(c.args, "tag_id", None),
                                       ArgGet(c.args, "tag_ids", <<>>))
    IN  [c EXCEPT !.targets = tags_to_delete,
                  !.pc = IF Len(tags_to_delete) = 1 THEN "delete_tag" ELSE "delete_tags"]

\* delete_devicehub_tag, from the tag lookup to the choice of the delete call.
AfterListRegistersDelete(c, tag_list) ==
    LET tags_to_delete == TagsToDelete(tag_list, ArgGet(c.args, "tag_name", None),
                                       ArgGet(c.args, "tag_id", None),
                                       ArgGet(c.args, "tag_ids", <<>>))
    IN  IF tags_to_delete = <<>>
        THEN Finish(c, McpError(INVALID_PARAMS, "No matching tags found to delete",
                                "", <<>>))
        ELSE [c EXCEPT !.targets = tags_to_delete,
                       !.pc = IF Len(tags_to_delete) = 1 THEN "delete_tag" ELSE "delete_tags"]

\* The handlers' code after list_registers_from_single_device returned tag_list.
AfterListRegisters(c, tag_list) ==
    CASE c.op = "get_devicehub_device_tags" ->
             Finish(c, FormatSuccessResponse(
                           DeviceTagsResult(ArgGet(c.args, "device_name", None), tag_list)))
      [] c.op = "get_current_value_of_devicehub_tag" -> AfterListRegistersRead(c, tag_list)
      [] c.op = "update_devicehub_tag" -> AfterListRegistersUpdate(c, tag_list)
      [] c.op = "delete_devicehub_tag" -> AfterListRegistersDelete(c, tag_list)

\* tags.list_registers_from_single_device(requested_device)
ListRegisters(p) ==
    /\ calls[p].pc = "list_registers"
    /\ \E ok \in BOOLEAN :
        calls' = [calls EXCEPT ![p] =
            IF ok
            THEN LET tag_list == ListRegistersFromSingleDevice(tags, calls[p].device[1])
                 IN  AfterListRegisters(
                         [Logged(calls[p], "list_registers_from_single_device", TRUE, <<>>)
                              EXCEPT !.tag_list = tag_list], tag_list)
            ELSE Raised(calls[p], "list_registers_from_single_device", <<>>)]
    /\ UNCHANGED catalog

\* tags.list_all_tags(le_connection=connection)
ListAllTags(p) ==
    /\ calls[p].pc = "list_all_tags"
    /\ \E ok \in BOOLEAN :
        calls' = [calls EXCEPT ![p] =
            IF ok
            THEN Finish(Logged(calls[p], "list_all_tags", TRUE, <<>>),
                        FormatSuccessResponse(
                            AllTagsResult(tags, ArgGet(calls[p].args, "device_name", None))))
            ELSE Raised(calls[p], "list_all_tags", <<>>)]
    /\ UNCHANGED catalog

\* devices.create_device(device, le_connection=connection)
CreateDevice(p) ==
    /\ calls[p].pc = "create_device"
    /\ LET sent == calls[p].targets
           created_device == CreatedDevice(sent[1])
       IN  \E ok \in BOOLEAN :
            /\ calls' = [calls EXCEPT ![p] =
                  IF ok
                  THEN Finish(Logged(calls[p], "create_device", TRUE, sent),
                              FormatSuccessResponse(CreateDeviceResult(created_device)))
                  ELSE Raised(calls[p], "create_device", sent)]
            /\ devices' = IF ok THEN Append(devices, created_device) ELSE devices
    /\ UNCHANGED <<drivers, tags>>

\* tags.create_tags([new_tag], le_connection=connection): the created tags, an
\* empty list, or an exception.
CreateTags(p) ==
    /\ calls[p].pc = "create_tags"
    /\ LET sent == calls[p].targets
           created_tag == CreatedTag(sent[1])
       IN  \E reply \in {"created", "empty", "raise"} :
            /\ calls' = [calls EXCEPT ![p] =
                  CASE reply = "created" ->
                         Finish(Logged(calls[p], "create_tags", TRUE, sent),
                                FormatSuccessResponse(
                                    TagResult(ArgGet(calls[p].args, "device_name", None), created_tag)))
                    [] reply = "empty" ->
                         Finish(Logged(calls[p], "create_tags", TRUE, sent),
                                McpError(INTERNAL_ERROR, "Tag creation returned no results",
                                         "", <<>>))
                    [] reply = "raise" -> Raised(calls[p], "create_tags", sent)]
            /\ tags' = IF reply = "created" THEN Append(tags, created_tag) ELSE tags
    /\ UNCHANGED <<drivers, devices>>

\* tags.update_tags([existing_tag], le_connection=connection): the updated
\* tags, an empty list, or an exception.
UpdateTags(p) ==
    /\ calls[p].pc = "update_tags"
    /\ LET sent == calls[p].targets
       IN  \E reply \in {"updated", "empty", "raise"} :
            /\ calls' = [calls EXCEPT ![p] =
                  CASE reply = "updated" ->
                         Finish(Logged(calls[p], "update_tags", TRUE, sent),
                                FormatSuccessResponse(
                                    TagResult(ArgGet(calls[p].args, "device_name", None), sent[1])))
                    [] reply = "empty" ->
                         Finish(Logged(calls[p], "update_tags", TRUE, sent),
                                McpError(INTERNAL_ERROR, "Tag update returned no results",
                                         "", <<>>))
                    [] reply = "raise" -> Raised(calls[p], "update_tags", sent)]
            /\ tags' = IF reply = "updated" THEN StoreUpdated(tags, sent) ELSE tags
    /\ UNCHANGED <<drivers, devices>>

\* The delete call (tags.delete_tag or tags.delete_tags) and the
\* handler's code after it.
Delete(p, call) ==
    LET sent == calls[p].targets
    IN  \E ok \in BOOLEAN :
         /\ calls' = [calls EXCEPT ![p] =
               IF ok
               THEN Finish(Logged(calls[p], call, TRUE, sent),
                           FormatSuccessResponse(
                               DeleteResult(ArgGet(calls[p].args, "device_name", None), sent)))
               ELSE Raised(calls[p], call, sent)]
         /\ tags' = IF ok THEN StoreDeleted(tags, sent) ELSE tags
         /\ UNCHANGED <<drivers, devices>>

\* tags.delete_tag(tags_to_delete[0], le_connection=connection)
DeleteTag(p) == calls[p].pc = "delete_tag" /\ Delete(p, "delete_tag")

\* tags.delete_tags(tags_to_delete, le_connection=connection)
DeleteTags(p) == calls[p].pc = "delete_tags" /\ Delete(p, "delete_tags")

\* await get_current_value_on_topic(topic=..., request=request)
GetCurrentValueOnTopic(p) ==
    /\ calls[p].pc = "get_current_value"
    /\ \E ok \in BOOLEAN :
        calls' = [calls EXCEPT ![p] =
            IF ok
            THEN Finish(Logged(calls[p], "get_current_value_on_topic", TRUE, <<>>),
                        FormatSuccessResponse(
                            ReadResult(ArgGet(calls[p].args, "device_name", None),
                                       ArgGet(calls[p].args, "tag_name", None),
                                       ArgGet(calls[p].args, "tag_id", None),
                                       calls[p].targets[1], CurrentValueOnTopic(calls[p].topic))))
            ELSE Raised(calls[p], "get_current_value_on_topic", <<>>)]
    /\ UNCHANGED catalog

Step(p) ==
    \/ GetLitmusedgeDriverList(p)
    \/ GetDevicehubDevices(p)
    \/ CreateDevicehubDevice(p)
    \/ GetDevicehubDeviceTags(p)
    \/ GetCurrentValueOfDevicehubTag(p)
    \/ ListAllDevicehubTags(p)
    \/ CreateDevicehubTag(p)
    \/ UpdateDevicehubTag(p)
    \/ DeleteDevicehubTag(p)
    \/ GetLitmusConnection(p)
    \/ ListAllDrivers(p)
    \/ ListDevices(p)
    \/ ListRegisters(p)
    \/ ListAllTags(p)
    \/ CreateDevice(p)
    \/ CreateTags(p)
    \/ UpdateTags(p)
    \/ DeleteTag(p)
    \/ DeleteTags(p)
    \/ GetCurrentValueOnTopic(p)

Next == \E p \in SeqProcs : Step(p)

Spec == Init /\ [][Next]_vars

(***************************************************************************)
(* Two updateTag calls against the same hub.  A handler holds no lock and  *)
(* no transaction between its fetch (list_registers_from_single_device)    *)
(* and its write (update_tags), and the hub is a remote service shared by  *)
(* every server process and client, so the remote calls of the two         *)
(* handlers reach the hub in any order.                                    *)
(***************************************************************************)

\* The requests of the two calls: a tag of device PLC1 and any of two fields.
ConcurrentUpdateChoices ==
    [device_name : {"PLC1"},
     tag_id      : {"t1", "t2"},
     tag_name    : {Absent, "Flow"},
     description : {Absent, "new"}]

UpdateDevicehubTagConcurrently(p) ==
    /\ calls[p].pc = "idle"
    /\ \E choice \in ConcurrentUpdateChoices :
           calls' = [calls EXCEPT ![p] =
               Entered(calls[p], "update_devicehub_tag", MakeArgs(choice),
                       ValidateUpdateTag(MakeArgs(choice)))]
    /\ UNCHANGED catalog

UpdateStep(p) ==
    \/ UpdateDevicehubTagConcurrently(p)
    \/ GetLitmusConnection(p)
    \/ ListDevices(p)
    \/ ListRegisters(p)
    \/ UpdateTags(p)

NextConcurrent == \E p \in Procs : UpdateStep(p)

SpecConcurrent == Init /\ [][NextConcurrent]_vars

(***************************************************************************)
(* Properties.                                                             *)
(***************************************************************************)

\* The remote calls of call c named call, as indices of its log.
CallsMade(c, call) == {i \in 1..Len(c.log) : c.log[i].call = call}

\* Call c's fetch of the device's tag list returned.
Fetched(c) ==
    \E i \in CallsMade(c, "list_registers_from_single_device") : c.log[i].ok

\* No remote call of call c raised.
NothingRaised(c) == \A i \in 1..Len(c.log) : c.log[i].ok

Ended(c) == c.pc = "done"

\* The tags of the fetched list with the given id / name.
WithId(c, id) == {t \in Range(c.tag_list) : t.id = id}
WithName(c, name) == {t \in Range(c.tag_list) : t.tag_name = name}

\* C1: the record updateTag sends to update_tags carries the supplied value for
\* every updatable field the request supplies and, for every other attribute
\* (the omitted updatable fields, id, device and the rest), exactly what the
\* tag had in the tag list this call fetched.
C1_UpdateIsPartialMerge ==
    \A p \in Procs :
        LET c == calls[p]
        IN  \A i \in CallsMade(c, "update_tags") :
                LET sent     == c.log[i].sent
                    supplied == DOMAIN c.args \cap Range(UpdatableFields)
                IN  /\ Len(sent) = 1
                    /\ \E old \in WithId(c, c.args.tag_id) :
                        /\ \A f \in supplied :
                              f \in DOMAIN sent[1] /\ sent[1][f] = c.args[f]
                        /\ DOMAIN sent[1] = DOMAIN old \cup supplied
                        /\ \A a \in DOMAIN old \ supplied : sent[1][a] = old[a]
                        /\ sent[1].id = old.id /\ sent[1].device = old.device

\* C1's case: only description was supplied (with the falsy value ""), the
\* update was sent and accepted.
C1_Witness ==
    \E p \in Procs :
        LET c == calls[p]
        IN  /\ c.op = "update_devicehub_tag" /\ Ended(c)
            /\ DOMAIN c.args \cap Range(UpdatableFields) = {"description"}
            /\ c.args.description = ""
            /\ c.outcome[1].kind = "success"
            /\ \E i \in CallsMade(c, "update_tags") :
                  /\ c.log[i].sent[1].description = ""
                  /\ c.log[i].sent[1].value_type = "float"
                  /\ c.log[i].sent[1].publish_cov = "True"

\* The positions of the request's tag_ids list whose id is the id of a tag of
\* the resolved device.
MatchingIds(c) ==
    LET tag_ids == ArgGet(c.args, "tag_ids", <<>>)
    IN  {i \in 1..Len(tag_ids) : WithId(c, tag_ids[i]) # {}}

\* C2: a deleteTag call with a tag_ids list of which at least one id matches a
\* tag of the resolved device does not fail on the ids that match none: it goes
\* on to a delete call that is passed exactly the matching tags and, unless a
\* remote call raises, succeeds with deleted_count the number of matching ids.
C2_DeleteSkipsUnknownIds ==
    \A p \in Procs :
        LET c       == calls[p]
            tag_ids == ArgGet(c.args, "tag_ids", <<>>)
            deletes == CallsMade(c, "delete_tag") \cup CallsMade(c, "delete_tags")
        IN  (c.op = "delete_devicehub_tag" /\ Fetched(c) /\ MatchingIds(c) # {}) =>
                /\ c.pc \in {"delete_tag", "delete_tags", "done"}
                /\ Ended(c) => /\ Cardinality(deletes) = 1
                               /\ c.outcome[1].kind # "mcp_error"
                /\ (Ended(c) /\ NothingRaised(c)) =>
                      /\ c.outcome[1].kind = "success"
                      /\ c.outcome[1].result.deleted_count = Cardinality(MatchingIds(c))
                /\ \A i \in deletes :
                      /\ {t.id : t \in Range(c.log[i].sent)} =
                             {tag_ids[j] : j \in MatchingIds(c)}
                      /\ Len(c.log[i].sent) = Cardinality(MatchingIds(c))

\* C2's case: tag_ids = [A, B, C] where B is the id of no tag of the device;
\* the call succeeded, A and C were passed to the batch delete, deleted_count = 2.
C2_Witness ==
    \E p \in Procs :
        LET c == calls[p]
        IN  /\ c.op = "delete_devicehub_tag" /\ Ended(c)
            /\ ArgGet(c.args, "tag_ids", <<>>) = <<"t1", "t3", "t2">>
            /\ MatchingIds(c) = {1, 3}
            /\ c.outcome[1].kind = "success"
            /\ c.outcome[1].result.deleted_count = 2
            /\ \E i \in CallsMade(c, "delete_tags") :
                  {t.id : t \in Range(c.log[i].sent)} = {"t1", "t2"}
            /\ {t.id : t \in Range(tags)} \cap {"t1", "t2"} = {}

\* None of the identifiers the deleteTag request supplies is that of a tag of
\* the resolved device.
NoneResolves(c) ==
    /\ MatchingIds(c) = {}
    /\ ~(Truthy(ArgGet(c.args, "tag_id", None)) /\ WithId(c, c.args.tag_id) # {})
    /\ ~(Truthy(ArgGet(c.args, "tag_name", None)) /\ WithName(c, c.args.tag_name) # {})

\* C3: when none of the identifiers a deleteTag request supplies resolves to a
\* tag of the device, the call raises an INVALID_PARAMS error, issues neither
\* delete call, and the device's tags in the catalog stay as fetched.
C3_DeleteNothingResolved ==
    \A p \in Procs :
        LET c == calls[p]
        IN  (c.op = "delete_devicehub_tag" /\ Fetched(c) /\ NoneResolves(c)) =>
                /\ Ended(c)
                /\ c.outcome[1].kind = "mcp_error"
                /\ c.outcome[1].code = INVALID_PARAMS
                /\ CallsMade(c, "delete_tag") \cup CallsMade(c, "delete_tags") = {}
                /\ ListRegistersFromSingleDevice(tags, c.device[1]) = c.tag_list

\* C3's case: a tag_ids list was supplied, the device was resolved and its
\* (non-empty) tag list fetched, and no id matched.
C3_Witness ==
    \E p \in Procs :
        LET c == calls[p]
        IN  /\ c.op = "delete_devicehub_tag" /\ Fetched(c) /\ NoneResolves(c)
            /\ ArgGet(c.args, "tag_ids", <<>>) # <<>>
            /\ c.tag_list # <<>>
            /\ Ended(c) /\ c.outcome[1].code = INVALID_PARAMS

\* C4: createDevice with a name and a selected_driver that is the name of no
\* driver of the fetched catalog raises an INVALID_PARAMS error whose message
\* lists every driver name of the catalog, issues no create call and leaves
\* the device collection as it was.
C4_UnknownDriverRejected ==
    \A p \in Procs :
        LET c == calls[p]
        IN  (/\ c.op = "create_devicehub_device"
             /\ \E i \in CallsMade(c, "list_all_drivers") : c.log[i].ok
             /\ c.args.selected_driver \notin {d.name : d \in Range(drivers)}) =>
                /\ Ended(c)
                /\ c.outcome[1].kind = "mcp_error"
                /\ c.outcome[1].code = INVALID_PARAMS
                /\ Range(c.outcome[1].message.listed) = {d.name : d \in Range(drivers)}
                /\ CallsMade(c, "create_device") = {}
                /\ devices \in DeviceCatalogs

\* C4's case: the catalog holds several drivers, none named as requested.
C4_Witness ==
    \E p \in Procs :
        LET c == calls[p]
        IN  /\ c.op = "create_devicehub_device" /\ Ended(c)
            /\ Truthy(ArgGet(c.args, "name", None))
            /\ ArgGet(c.args, "selected_driver", None) = "Bogus"
            /\ Len(drivers) > 1
            /\ c.outcome[1].kind = "mcp_error"
            /\ Len(c.outcome[1].message.listed) = Len(drivers)

\* C5: readTagValue on a resolved tag none of whose topics has direction
\* "Output" raises an INTERNAL_ERROR (never INVALID_PARAMS) and never calls the
\* live-value lookup.
C5_NoOutputTopicIsSystemError ==
    \A p \in Procs :
        LET c == calls[p]
            requested == ResolveTag(c.tag_list, ArgGet(c.args, "tag_name", None),
                                    ArgGet(c.args, "tag_id", None))
        IN  (/\ c.op = "get_current_value_of_devicehub_tag" /\ Fetched(c)
             /\ requested # <<>>
             /\ \A i \in 1..Len(requested[1].topics) :
                    requested[1].topics[i].direction # "Output") =>
                /\ Ended(c)
                /\ c.outcome[1].kind = "mcp_error"
                /\ c.outcome[1].code = INTERNAL_ERROR
                /\ CallsMade(c, "get_current_value_on_topic") = {}

\* C5's case: the tag was resolved and its only topic has direction "Input".
C5_Witness ==
    \E p \in Procs :
        LET c == calls[p]
        IN  /\ c.op = "get_current_value_of_devicehub_tag" /\ Ended(c)
            /\ \E t \in WithName(c, "Pres") :
                  /\ Len(t.topics) = 1 /\ t.topics[1].direction = "Input"
            /\ ArgGet(c.args, "tag_name", None) = "Pres"
            /\ c.outcome[1].code = INTERNAL_ERROR

\* C6: listDevices returns exactly the devices of the collection whose driver
\* equals filter_by_driver (all of them when no filter is given; an empty
\* filter is no filter), each once, ascending by name, and count is their
\* number.
C6_ListDevicesFiltersAndSorts ==
    \A p \in Procs :
        LET c      == calls[p]
            filter == ArgGet(c.args, "filter_by_driver", None)
            wanted == {i \in 1..Len(devices) :
                          Truthy(filter) =>
                              /\ "driver" \in DOMAIN devices[i]
                              /\ devices[i].driver = filter}
        IN  (c.op = "get_devicehub_devices" /\ Ended(c) /\ NothingRaised(c)) =>
                /\ c.outcome[1].kind = "success"
                /\ LET out == c.outcome[1].result.devices
                   IN  /\ Len(out) = Cardinality(wanted)
                       /\ {<<r.id, r.name>> : r \in Range(out)} =
                              {<<devices[i].id, devices[i].name>> : i \in wanted}
                       /\ \A i, j \in 1..Len(out) :
                              i < j => StrLeq(out[i].name, out[j].name)
                       /\ c.outcome[1].result.count = Len(out)

\* C6's case: a filter was given that one of two devices matches.
C6_Witness ==
    \E p \in Procs :
        LET c == calls[p]
        IN  /\ c.op = "get_devicehub_devices" /\ Ended(c)
            /\ ArgGet(c.args, "filter_by_driver", None) = "drvB"
            /\ Len(devices) = 2
            /\ c.outcome[1].kind = "success"
            /\ c.outcome[1].result.count = 1
            /\ c.outcome[1].result.devices[1].name = "Boiler"

\* C7: with a device_name filter, every tag listAllTags returns, and every tag
\* summary.by_device counts, is a tag whose record has a device_name attribute
\* equal to the filter.
C7_AllTagsFilteredByDeviceName ==
    \A p \in Procs :
        LET c      == calls[p]
            filter == ArgGet(c.args, "device_name", None)
            named  == {t \in Range(tags) :
                          "device_name" \in DOMAIN t /\ t.device_name = filter}
        IN  (/\ c.op = "list_all_devicehub_tags" /\ Ended(c)
             /\ c.outcome[1].kind = "success" /\ Truthy(filter)) =>
                LET res == c.outcome[1].result
                IN  /\ \A r \in Range(res.tags) : \E t \in named : t.id = r.id
                    /\ \A k \in DOMAIN res.summary.by_device :
                          res.summary.by_device[k] <=
                              Cardinality({t \in named : t.device = k})

\* The attributes each normalizer lists.
DriverFieldList == {"name", "id", "protocol", "version", "description", "category"}
DeviceFieldList == {"name", "id", "driver", "metadata", "description", "properties"}
DeviceTagFieldList == {"tag_name", "id", "address", "data_type", "scaling",
                       "read_write", "unit", "description"}
TagFieldList == {"tag_name", "id", "device", "value_type", "description", "publish_cov"}

\* The normalized record carries no attribute of the field list that the raw
\* record lacks or holds as null.
Sparse(raw, normalized, field_list) ==
    \A a \in field_list :
        (a \notin DOMAIN raw \/ raw[a] = None) => a \notin DOMAIN normalized

\* C8: in every listing, each normalized record (driver, device, tag) lacks
\* every listed attribute that its raw record lacks or holds as null, and
\* normalizing it again gives the same mapping.
C8_NormalizationSparseIdempotent ==
    \A p \in Procs :
        LET c == calls[p]
        IN  (Ended(c) /\ c.outcome[1].kind = "success") =>
                LET res == c.outcome[1].result
                IN  /\ c.op = "get_litmusedge_driver_list" =>
                          \A r \in Range(res.drivers) : \A d \in Range(drivers) :
                              d.id = r.id =>
                                  Sparse(d, r, DriverFieldList) /\ DriverInfo(r) = r
                    /\ c.op = "get_devicehub_devices" =>
                          \A r \in Range(res.devices) : \A d \in Range(devices) :
                              d.id = r.id =>
                                  Sparse(d, r, DeviceFieldList) /\ BuildDeviceInfo(r) = r
                    /\ c.op = "get_devicehub_device_tags" =>
                          \A r \in Range(res.tags) : \A t \in Range(tags) :
                              t.id = r.id =>
                                  Sparse(t, r, DeviceTagFieldList) /\ DeviceTagInfo(r) = r
                    /\ c.op = "list_all_devicehub_tags" =>
                          \A r \in Range(res.tags) : \A t \in Range(tags) :
                              t.id = r.id =>
                                  Sparse(t, r, TagFieldList) /\ TagInfo(r) = r

ListingOps == {"get_litmusedge_driver_list", "get_devicehub_devices",
               "get_devicehub_device_tags", "list_all_devicehub_tags"}

\* The fields of the operation's success payload (without the optional
\* filters_applied).
SuccessKeys(op) ==
    CASE op = "get_litmusedge_driver_list" -> DOMAIN DriverListResult(<<>>)
      [] op = "get_devicehub_devices" -> DOMAIN DevicesResult(<<>>, None)
      [] op = "create_devicehub_device" -> DOMAIN CreateDeviceResult(NoFields)
      [] op = "get_devicehub_device_tags" -> DOMAIN DeviceTagsResult("", <<>>)
      [] op = "get_current_value_of_devicehub_tag" ->
             DOMAIN ReadResult("", "x", "x", NoFields, NoFields)
      [] op = "list_all_devicehub_tags" -> DOMAIN AllTagsResult(<<>>, None)
      [] op \in {"create_devicehub_tag", "update_devicehub_tag"} ->
             DOMAIN TagResult("", [tag_name |-> ""])
      [] op = "delete_devicehub_tag" -> DOMAIN DeleteResult("", <<>>)

\* C9 as stated: the error envelope a raising remote call ends in carries every
\* field of the operation's success payload.
C9_ErrorEnvelopeMirrorsSuccess ==
    \A p \in Procs :
        LET c == calls[p]
        IN  (Ended(c) /\ c.outcome[1].kind = "error") =>
                SuccessKeys(c.op) \subseteq DOMAIN c.outcome[1].fields

\* C9, amended: the error envelope a raising remote call ends in carries, for
\* the four listing operations, count = 0 and the empty record list (drivers,
\* devices or tags) and no other field of the success payload; for the other
\* operations it carries none.
C9_ErrorEnvelopeDefaults ==
    \A p \in Procs :
        LET c == calls[p]
        IN  (Ended(c) /\ ~NothingRaised(c)) =>
                /\ c.outcome[1].kind = "error"
                /\ LET fields == c.outcome[1].fields
                       records == CASE c.op = "get_litmusedge_driver_list" -> "drivers"
                                    [] c.op = "get_devicehub_devices" -> "devices"
                                    [] OTHER -> "tags"
                   IN  IF c.op \in ListingOps
                       THEN /\ DOMAIN fields = {"count", records}
                            /\ fields.count = 0 /\ fields[records] = <<>>
                            /\ DOMAIN fields \subseteq SuccessKeys(c.op)
                            /\ DOMAIN fields # SuccessKeys(c.op)
                       ELSE DOMAIN fields = {} /\ SuccessKeys(c.op) # {}

\* C9's case: the tag fetch of listDeviceTags raised after the connection and
\* the device lookup went through.
C9_Witness ==
    \E p \in Procs :
        LET c == calls[p]
        IN  /\ c.op = "get_devicehub_device_tags" /\ Ended(c)
            /\ Len(c.log) = 3 /\ ~c.log[3].ok
            /\ c.outcome[1].kind = "error"
            /\ c.outcome[1].fields.count = 0

\* The reason code of each operation's error envelope.
ReasonCodeOf ==
    [get_litmusedge_driver_list         |-> "retrieval_failed",
     get_devicehub_devices              |-> "retrieval_failed",
     create_devicehub_device            |-> "creation_failed",
     get_devicehub_device_tags          |-> "retrieval_failed",
     get_current_value_of_devicehub_tag |-> "read_failed",
     list_all_devicehub_tags            |-> "retrieval_failed",
     create_devicehub_tag               |-> "creation_failed",
     update_devicehub_tag               |-> "update_failed",
     delete_devicehub_tag               |-> "deletion_failed"]

\* C10: a call that has ended has exactly one outcome: a success envelope, an
\* error envelope with the operation's reason code, or an McpError classified
\* INVALID_PARAMS or INTERNAL_ERROR; a call that has not ended has none.  A
\* remote call that raises is the call's last remote call, ends the call, and
\* ends it in the error envelope (the exception is not propagated).
C10_OutcomesAndNoRetry ==
    \A p \in Procs :
        LET c == calls[p]
        IN  /\ ~Ended(c) => c.outcome = <<>>
            /\ Ended(c) =>
                  /\ Len(c.outcome) = 1
                  /\ c.outcome[1].kind \in {"success", "error", "mcp_error"}
                  /\ c.outcome[1].kind = "error" =>
                        /\ c.outcome[1].code = ReasonCodeOf[c.op]
                        /\ ~NothingRaised(c)
                  /\ c.outcome[1].kind = "mcp_error" =>
                        c.outcome[1].code \in {INVALID_PARAMS, INTERNAL_ERROR}
            /\ \A i \in 1..Len(c.log) :
                  ~c.log[i].ok =>
                      /\ i = Len(c.log)
                      /\ Ended(c)
                      /\ c.outcome[1].kind = "error"

\* C10's case: updateTag's write raised after three remote calls went through.
C10_Witness ==
    \E p \in Procs :
        LET c == calls[p]
        IN  /\ c.op = "update_devicehub_tag" /\ Ended(c)
            /\ Len(c.log) = 4
            /\ c.log[4].call = "update_tags" /\ ~c.log[4].ok
            /\ c.outcome[1].kind = "error"
            /\ c.outcome[1].code = "update_failed"

\* The success payload of a call that returned a success envelope.
Succeeded(c) == Ended(c) /\ c.outcome[1].kind = "success"

\* C11: on every successful readTagValue the result's tag_name and tag_id are
\* the name and id of the resolved tag (the one whose Output topic was read),
\* whatever combination of tag_name and tag_id was supplied, and data is the
\* live-value subsystem's payload for that topic, unmodified.
C11_ReadResultNamesResolvedTag ==
    \A p \in Procs :
        LET c == calls[p]
        IN  (c.op = "get_current_value_of_devicehub_tag" /\ Succeeded(c)) =>
                /\ c.outcome[1].result.tag_name = c.targets[1].tag_name
                /\ c.outcome[1].result.tag_id = c.targets[1].id
                /\ c.topic = OutputTopic(c.targets[1])
                /\ c.outcome[1].result.data = CurrentValueOnTopic(c.topic)

\* Both single-tag identifiers are supplied (and, for deleteTag, no tag_ids).
BothSupplied(c) ==
    /\ Truthy(ArgGet(c.args, "tag_name", None))
    /\ Truthy(ArgGet(c.args, "tag_id", None))
    /\ ArgGet(c.args, "tag_ids", <<>>) = <<>>

\* The first tag of the fetched list with the supplied tag_name / tag_id.
ByName(c) ==
    FirstWhere(c.tag_list, {i \in 1..Len(c.tag_list) :
                                c.tag_list[i].tag_name = ArgGet(c.args, "tag_name", None)})
ById(c) == FindTagById(c.tag_list, ArgGet(c.args, "tag_id", None))

\* The call was turned down for a tag that does not resolve.
TagNotFound(c) ==
    /\ Ended(c)
    /\ c.outcome[1].kind = "mcp_error"
    /\ c.outcome[1].code = INVALID_PARAMS
    /\ c.targets = <<>>

\* The call was turned down by its parameter checks, before any remote call.
RejectedOnEntry(c) == Ended(c) /\ c.log = <<>>

\* C12 as stated: in readTagValue and in deleteTag, when both tag_name and
\* tag_id are supplied the call is not rejected and the target is the tag
\* resolved by tag_name, tag_id playing no part in the resolution.
C12_NamePreferredOverId ==
    \A p \in Procs :
        LET c == calls[p]
        IN  (/\ c.op \in {"get_current_value_of_devicehub_tag", "delete_devicehub_tag"}
             /\ Truthy(ArgGet(c.args, "device_name", None))
             /\ BothSupplied(c)) =>
                /\ ~RejectedOnEntry(c)
                /\ Fetched(c) =>
                      /\ ByName(c) = <<>> => TagNotFound(c)
                      /\ c.targets # <<>> => c.targets = ByName(c)

\* C12, amended: when both tag_name and tag_id are supplied neither operation
\* rejects the call; readTagValue resolves the tag by tag_name (tag_id plays no
\* part), deleteTag resolves it by tag_id (tag_name plays no part).
C12_ReadPrefersNameDeletePrefersId ==
    \A p \in Procs :
        LET c == calls[p]
            resolved == IF c.op = "delete_devicehub_tag" THEN ById(c) ELSE ByName(c)
        IN  (/\ c.op \in {"get_current_value_of_devicehub_tag", "delete_devicehub_tag"}
             /\ Truthy(ArgGet(c.args, "device_name", None))
             /\ BothSupplied(c)) =>
                /\ ~RejectedOnEntry(c)
                /\ Fetched(c) =>
                      /\ resolved = <<>> => TagNotFound(c)
                      /\ c.targets # <<>> => c.targets = resolved

\* C12's case: deleteTag was given tag_name "Temp" and tag_id "t2", both on the
\* device, and deleted the tag with id "t2", whose name is "Pres".
C12_Witness ==
    \E p \in Procs :
        LET c == calls[p]
        IN  /\ c.op = "delete_devicehub_tag" /\ Succeeded(c)
            /\ BothSupplied(c)
            /\ ArgGet(c.args, "tag_name", None) = "Temp"
            /\ ArgGet(c.args, "tag_id", None) = "t2"
            /\ WithName(c, "Temp") # {}
            /\ c.outcome[1].result.deleted_tags = <<"Pres">>
            /\ CallsMade(c, "delete_tag") # {}

\* The tags of the fetched list that are no longer in the hub's collection.
Removed(c) == {t \in Range(c.tag_list) : t \notin Range(tags)}

\* C14: on every successful deleteTag, deleted_count is the number of distinct
\* tags removed from the device's collection, deleted_tags names each removed
\* tag exactly once, for every tag_ids list (lists that repeat an id included),
\* and the single-item delete call is the one used exactly when one distinct
\* tag is removed, the batch delete call otherwise.
C14_DeleteCountsDistinctTags ==
    \A p \in Procs :
        LET c == calls[p]
            result == c.outcome[1].result
        IN  (c.op = "delete_devicehub_tag" /\ Succeeded(c)) =>
                /\ result.deleted_count = Cardinality(Removed(c))
                /\ Len(result.deleted_tags) = Cardinality(Removed(c))
                /\ \A t \in Removed(c) :
                      Cardinality({i \in 1..Len(result.deleted_tags) :
                                       result.deleted_tags[i] = t.tag_name}) = 1
                /\ CallsMade(c, "delete_tag") # {} <=> Cardinality(Removed(c)) = 1
                /\ CallsMade(c, "delete_tags") # {} <=> Cardinality(Removed(c)) # 1

\* The updatable fields the call's request supplies.
Supplied(c) == {f \in Range(UpdatableFields) : Provided(ArgGet(c.args, f, None))}

\* Both calls are updateTag calls on the tag with this id, both returned a
\* success envelope, and no field is supplied by both.
BothUpdated(id) ==
    /\ \A p \in Procs :
          /\ calls[p].op = "update_devicehub_tag" /\ Succeeded(calls[p])
          /\ ArgGet(calls[p].args, "tag_id", None) = id
    /\ \A p, q \in Procs : p # q => Supplied(calls[p]) \cap Supplied(calls[q]) = {}

\* The hub's tag with this id.
Stored(id) == FindTagById(tags, id)[1]

\* C13 as stated: after two updateTag calls on the same tag with disjoint
\* supplied fields have both completed, whatever the order of their fetches and
\* writes, the stored tag carries the supplied values of both calls.
C13_ConcurrentUpdatesBothKept ==
    \A id \in TagIdValues :
        BothUpdated(id) =>
            \A p \in Procs : \A f \in Supplied(calls[p]) :
                f \in DOMAIN Stored(id) /\ Stored(id)[f] = calls[p].args[f]

\* C13, amended: the stored tag is the whole record one of the two calls wrote
\* (the one whose write reached the hub last): it carries that call's supplied
\* values and, in every other attribute, what that call had fetched; a field
\* only the other call supplied keeps the other call's value only if it was
\* already in that fetch, and is otherwise reverted.
C13_LastWriteWins ==
    \A id \in TagIdValues :
        BothUpdated(id) =>
            \E w \in Procs :
                LET c       == calls[w]
                    fetched == FindTagById(c.tag_list, id)[1]
                IN  /\ Stored(id) = c.targets[1]
                    /\ \A f \in Supplied(c) : Stored(id)[f] = c.args[f]
                    /\ \A f \in DOMAIN fetched \ Supplied(c) : Stored(id)[f] = fetched[f]
                    /\ DOMAIN Stored(id) = DOMAIN fetched \cup Supplied(c)

\* C13's case: one call supplied tag_name only, the other description only,
\* both fetched before either wrote, and the stored tag has lost one of the
\* two new values.
C13_Witness ==
    /\ BothUpdated("t1")
    /\ \E p, q \in Procs :
          /\ Supplied(calls[p]) = {"tag_name"}
          /\ Supplied(calls[q]) = {"description"}
          /\ WithId(calls[p], "t1") = WithId(calls[q], "t1")
          /\ Stored("t1").description = "new"
          /\ Stored("t1").tag_name = "Temp"

====
